---- MODULE Spec2Model ----
(***************************************************************************)
(* Model of snd-lang's lexical front end: the process-wide symbol interner *)
(* (src/util.rs) and the single-pass lexer (src/lexer.rs).                 *)
(***************************************************************************)
EXTENDS Integers, Sequences, FiniteSets, TLC

(***************************************************************************)
(* Bounds of the model.                                                    *)
(***************************************************************************)
NumThreads == 2
NumTexts == 4
MaxCalls == 4
MaxSrcLen == 4

VARIABLES
    symbols,        \* SYMBOLS: Vec<String>, the texts in insertion order
    symbols_map,    \* SYMBOLS_MAP: HashMap<&str, Symbol>, text -> Symbol
    map_alloc,      \* identity of the heap block that holds the map's entries
    symbols_lock,   \* owner of the SYMBOLS mutex, 0 when free
    map_lock,       \* owner of the SYMBOLS_MAP mutex, 0 when free
    pc,             \* per thread: position inside Symbol::new
    arg,            \* per thread: the parameter s
    index,          \* per thread: the local `index`
    ret,            \* per thread: the reference the call is returning
    held,           \* a reference a caller kept from an earlier call
    path,           \* per thread: was the text absent at call time, and was
                    \* it then found at the lookup ("raced")
    calls,          \* how many calls of Symbol::new have started
    returned        \* the Symbol every finished call gave, with the text asked

VARIABLES
    src,            \* Lexer.src: the source text, a sequence of characters
    chars,          \* the iterator of lex: index of the next character
    pos,            \* Lexer.pos: the running byte position
    accum,          \* Lexer.accum: pending text
    tokens,         \* Lexer.tokens
    lpc,            \* "idle" (no lexer), "scan", "done", or "panic"
    out,            \* what lex returned
    printed         \* the excerpts the caller has rendered from out

ivars == <<symbols, symbols_map, map_alloc, symbols_lock, map_lock,
           pc, arg, index, ret, held, path, calls, returned>>
lvars == <<src, chars, pos, accum, tokens, lpc, out, printed>>
vars == <<ivars, lvars>>

Threads == 1..NumThreads

\* the texts the threads intern
TextPool == << <<"a">>, <<"b">>, <<"c">>, <<"d">>, <<"e">>, <<"f">>, <<"g">> >>
Texts == {TextPool[i] : i \in 1..NumTexts}

NoText == <<>>
NoRef == [name |-> NoText, index |-> 0, alloc |-> 0]

\* struct Symbol { name, index }
Symbol(name, idx) == [name |-> name, index |-> idx]

(***************************************************************************)
(* std::collections::HashMap keeps its entries inline in one heap block.   *)
(* An empty map has no block; the block holds 4 buckets at first and       *)
(* doubles when an insert finds no room, moving every entry to a new block *)
(* and freeing the old one.                                                *)
(***************************************************************************)
BucketsFor(n) == IF n = 0 THEN 0 ELSE IF n < 4 THEN 4 ELSE IF n < 8 THEN 8 ELSE 16

\* does inserting one more entry into a map of n entries move the entries?
Grows(n) == BucketsFor(n + 1) # BucketsFor(n)

\* static_symbol: a reference into the map's current block, lifetime erased
static_symbol(name) ==
    [name |-> name, index |-> symbols_map[name].index, alloc |-> map_alloc]

\* what reading a Symbol through a reference can give: the entry while the
\* block it points into is live, anything once that block has been freed
AnySymbol == {Symbol(n, i) : n \in Texts \cup {NoText}, i \in 0..NumTexts}
Deref(r) ==
    IF r.alloc = map_alloc /\ r.name \in DOMAIN symbols_map
    THEN {symbols_map[r.name]}
    ELSE AnySymbol

IInit ==
    /\ symbols = <<>>
    /\ symbols_map = <<>>
    /\ map_alloc = 0
    /\ symbols_lock = 0
    /\ map_lock = 0
    /\ pc = [t \in Threads |-> "idle"]
    /\ arg = [t \in Threads |-> NoText]
    /\ index = [t \in Threads |-> 0]
    /\ ret = [t \in Threads |-> NoRef]
    /\ held = NoRef
    /\ path = [t \in Threads |-> "-"]
    /\ calls = 0
    /\ returned = {}

\* The interner only compares texts for equality, so a call asks for a text
\* that was asked for before or for the first text of the pool that was not.
Requested ==
    ({symbols[i] : i \in 1..Len(symbols)} \cup {arg[t] : t \in Threads})
        \ {NoText}
CallTexts ==
    LET unused == {i \in 1..NumTexts : TextPool[i] \notin Requested}
    IN  Requested \cup
        {TextPool[i] : i \in {j \in unused : \A k \in unused : j <= k}}

\* a thread enters Symbol::new(s)
Call(t) ==
    /\ pc[t] = "idle"
    /\ calls < MaxCalls
    /\ calls' = calls + 1
    /\ \E s \in CallTexts :
          /\ arg' = [arg EXCEPT ![t] = s]
          /\ path' = [path EXCEPT ![t] =
                IF s \in DOMAIN symbols_map THEN "present" ELSE "absent"]
    /\ pc' = [pc EXCEPT ![t] = "lock_symbols"]
    /\ UNCHANGED <<held, symbols, symbols_map, map_alloc, symbols_lock, map_lock,
                   index, ret, returned>>
    /\ UNCHANGED lvars

\* Mutex::lock blocks until the mutex has no owner
CanLockBroken(owner) == TRUE
CanLock(owner) == owner = 0

\* let mut symbols = SYMBOLS.lock().unwrap();
LockSymbols(t) ==
    /\ pc[t] = "lock_symbols"
    /\ CanLock(symbols_lock)
    /\ symbols_lock' = t
    /\ pc' = [pc EXCEPT ![t] = "lock_map"]
    /\ UNCHANGED <<held, symbols, symbols_map, map_alloc, map_lock, arg, index,
                   ret, path, calls, returned>>
    /\ UNCHANGED lvars

\* let mut symbols_map = SYMBOLS_MAP.lock().unwrap();
LockMap(t) ==
    /\ pc[t] = "lock_map"
    /\ CanLock(map_lock)
    /\ map_lock' = t
    /\ pc' = [pc EXCEPT ![t] = "lookup"]
    /\ UNCHANGED <<held, symbols, symbols_map, map_alloc, symbols_lock, arg, index,
                   ret, path, calls, returned>>
    /\ UNCHANGED lvars

\* a lookup that never finds the text
LookupAlwaysMiss(t) ==
    /\ pc[t] = "lookup"
    /\ pc' = [pc EXCEPT ![t] = "push"]
    /\ UNCHANGED <<held, symbols, symbols_map, map_alloc, symbols_lock, map_lock,
                   arg, index, ret, path, calls, returned>>
    /\ UNCHANGED lvars

\* if let Some(ref symbol) = symbols_map.get(s) { return static_symbol(symbol); }
Lookup(t) ==
    /\ pc[t] = "lookup"
    /\ IF arg[t] \in DOMAIN symbols_map
       THEN /\ ret' = [ret EXCEPT ![t] = static_symbol(arg[t])]
            /\ path' = [path EXCEPT ![t] =
                  IF path[t] = "absent" THEN "raced" ELSE path[t]]
            /\ pc' = [pc EXCEPT ![t] = "unlock_map"]
       ELSE /\ ret' = ret
            /\ path' = path
            /\ pc' = [pc EXCEPT ![t] = "push"]
    /\ UNCHANGED <<held, symbols, symbols_map, map_alloc, symbols_lock, map_lock,
                   arg, index, calls, returned>>
    /\ UNCHANGED lvars

\* let index = symbols.len();
NextIndexLast(syms) == IF Len(syms) = 0 THEN 0 ELSE Len(syms) - 1
NextIndex(syms) == Len(syms)

\* let index = symbols.len(); symbols.push(name);
Push(t) ==
    /\ pc[t] = "push"
    /\ index' = [index EXCEPT ![t] = NextIndex(symbols)]
    /\ symbols' = Append(symbols, arg[t])
    /\ pc' = [pc EXCEPT ![t] = "insert"]
    /\ UNCHANGED <<held, symbols_map, map_alloc, symbols_lock, map_lock, arg, ret,
                   path, calls, returned>>
    /\ UNCHANGED lvars

\* an insert that leaves the map as it was
MapInsertNothing(m, name, symbol) == m

\* the map after symbols_map.insert(name, symbol)
MapInsert(m, name, symbol) ==
    [n \in DOMAIN m \cup {name} |-> IF n = name THEN symbol ELSE m[n]]

\* let symbol = Symbol { name, index }; symbols_map.insert(name, symbol);
\* let symbol = symbols_map.get(name).unwrap(); static_symbol(symbol)
Insert(t) ==
    LET name == symbols[Len(symbols)]
        n == Cardinality(DOMAIN symbols_map)
        newalloc == IF name \notin DOMAIN symbols_map /\ Grows(n)
                    THEN map_alloc + 1 ELSE map_alloc
    IN  /\ pc[t] = "insert"
        /\ symbols_map' = MapInsert(symbols_map, name, Symbol(name, index[t]))
        /\ map_alloc' = newalloc
        /\ ret' = [ret EXCEPT ![t] =
                     [name |-> name, index |-> index[t], alloc |-> newalloc]]
        /\ pc' = [pc EXCEPT ![t] = "unlock_map"]
        /\ UNCHANGED <<held, symbols, symbols_lock, map_lock, arg, index, path,
                       calls, returned>>
        /\ UNCHANGED lvars

\* a return that leaks the map guard: the mutex stays locked
UnlockMapKeep(t) ==
    /\ pc[t] = "unlock_map"
    /\ pc' = [pc EXCEPT ![t] = "unlock_symbols"]
    /\ UNCHANGED <<held, symbols, symbols_map, map_alloc, symbols_lock, map_lock,
                   arg, index, ret, path, calls, returned>>
    /\ UNCHANGED lvars

\* the guards drop in reverse order of declaration: symbols_map first
UnlockMap(t) ==
    /\ pc[t] = "unlock_map"
    /\ map_lock' = 0
    /\ pc' = [pc EXCEPT ![t] = "unlock_symbols"]
    /\ UNCHANGED <<held, symbols, symbols_map, map_alloc, symbols_lock, arg, index,
                   ret, path, calls, returned>>
    /\ UNCHANGED lvars

\* ... then symbols; the call returns its reference to the caller, its locals
\* die, and the caller sees the Symbol the reference points to; the caller
\* keeps the reference or drops it
UnlockSymbols(t) ==
    /\ pc[t] = "unlock_symbols"
    /\ symbols_lock' = 0
    /\ returned' = returned \cup
          {[text |-> arg[t], symbol |-> Symbol(ret[t].name, ret[t].index)]}
    /\ pc' = [pc EXCEPT ![t] = "idle"]
    /\ arg' = [arg EXCEPT ![t] = NoText]
    /\ index' = [index EXCEPT ![t] = 0]
    /\ path' = [path EXCEPT ![t] = "-"]
    /\ ret' = [ret EXCEPT ![t] = NoRef]
    /\ held' \in {held, ret[t]}
    /\ UNCHANGED <<symbols, symbols_map, map_alloc, map_lock, calls>>
    /\ UNCHANGED lvars

INext ==
    \E t \in Threads :
        \/ Call(t)
        \/ LockSymbols(t)
        \/ LockMap(t)
        \/ Lookup(t)
        \/ Push(t)
        \/ Insert(t)
        \/ UnlockMap(t)
        \/ UnlockSymbols(t)

(***************************************************************************)
(* The lexer (src/lexer.rs).  A character is a one-character string, or    *)
(* the name of a code point for characters outside ASCII.                  *)
(***************************************************************************)
Digits == {"0", "1", "2", "3", "4", "5", "6", "7", "8", "9"}

\* char::is_whitespace, on the characters the model uses
Whitespace == {" ", "\n", "\t", "U+00A0"}

\* the match arms '(' ')' '{' '}' ':' ',' '|' of lex
StructuralKind(c) ==
    CASE c = "(" -> "LParen"
      [] c = ")" -> "RParen"
      [] c = "{" -> "LBrace"
      [] c = "}" -> "RBrace"
      [] c = ":" -> "Colon"
      [] c = "," -> "Comma"
      [] c = "|" -> "Pipe"
      [] OTHER -> "-"
Structural == {"(", ")", "{", "}", ":", ",", "|"}

\* char::len_utf8: the bytes a character takes in the source
Utf8Len(c) == IF c \in {"U+00A0", "U+00E9"} THEN 2 ELSE 1

\* str::len: the byte length of a text
RECURSIVE ByteLen(_)
ByteLen(s) == IF s = <<>> THEN 0 ELSE Utf8Len(Head(s)) + ByteLen(Tail(s))

\* fn is_keyword(s)
Keywords ==
    { <<"f", "n">>, <<"l", "e", "t">>, <<"m", "a", "t", "c", "h">>,
      <<"c", "o", "n", "d">>, <<"i", "t", "s", "e", "l", "f">> }
is_keyword(s) == s \in Keywords

\* fn is_int(s): all characters are decimal digits
is_int(s) == \A i \in 1..Len(s) : s[i] \in Digits

\* fn is_bool(s)
TrueText == <<"t", "r", "u", "e">>
FalseText == <<"f", "a", "l", "s", "e">>
is_bool(s) == s = TrueText \/ s = FalseText

(***************************************************************************)
(* An i64 is kept as its decimal rendering without leading zeros, so that  *)
(* the whole range of the type is exact.  str::parse::<i64> on a run of    *)
(* digits gives the value, or an error when it exceeds i64::MAX.           *)
(***************************************************************************)
I64Max == <<"9", "2", "2", "3", "3", "7", "2", "0", "3", "6",
            "8", "5", "4", "7", "7", "5", "8", "0", "7">>

DigitVal(c) ==
    CASE c = "0" -> 0 [] c = "1" -> 1 [] c = "2" -> 2 [] c = "3" -> 3
      [] c = "4" -> 4 [] c = "5" -> 5 [] c = "6" -> 6 [] c = "7" -> 7
      [] c = "8" -> 8 [] c = "9" -> 9

RECURSIVE StripZeros(_)
StripZeros(ds) ==
    IF Len(ds) > 1 /\ Head(ds) = "0" THEN StripZeros(Tail(ds)) ELSE ds

\* a <= b for digit strings of equal length
RECURSIVE DigitsLeq(_, _)
DigitsLeq(a, b) ==
    IF a = <<>> THEN TRUE
    ELSE IF DigitVal(Head(a)) < DigitVal(Head(b)) THEN TRUE
    ELSE IF DigitVal(Head(a)) > DigitVal(Head(b)) THEN FALSE
    ELSE DigitsLeq(Tail(a), Tail(b))

FitsI64(ds) ==
    LET c == StripZeros(ds)
    IN  Len(c) < Len(I64Max) \/ (Len(c) = Len(I64Max) /\ DigitsLeq(c, I64Max))

\* text.parse(): Ok(value) or Err
parse(text) ==
    IF FitsI64(text) THEN [ok |-> TRUE, num |-> StripZeros(text)]
    ELSE [ok |-> FALSE, num |-> <<>>]

\* i64::to_string
to_string(num) == num

\* enum TokenKind
Ident(text) == [kind |-> "Ident", text |-> text]
Keyword(text) == [kind |-> "Keyword", text |-> text]
IntLit(num) == [kind |-> "IntLit", num |-> num]
BoolLit(b) == [kind |-> "BoolLit", b |-> b]
Punct(kind) == [kind |-> kind]
FatArrow == [kind |-> "FatArrow"]
None == [kind |-> "None"]

\* a length that counts one byte more than the token's text has
length_with_terminator(token) ==
    IF token.kind \in {"Ident", "Keyword"} THEN ByteLen(token.text) + 1
    ELSE 2

\* TokenKind::length
length(token) ==
    CASE token.kind = "Ident" -> ByteLen(token.text)
      [] token.kind = "Keyword" -> ByteLen(token.text)
      [] token.kind = "FatArrow" -> 2
      [] token.kind = "BoolLit" ->
            IF token.b THEN Len(TrueText) ELSE Len(FalseText)
      [] token.kind = "IntLit" -> Len(to_string(token.num))
      [] OTHER -> 1

\* the loop with line_start = i in place of i + 1
RECURSIVE LineScanOnNewline(_, _, _, _, _, _)
LineScanOnNewline(s, idx, k, i, line_number, line_start) ==
    IF k > Len(s) \/ i >= idx
    THEN <<line_number, idx - line_start + 1>>
    ELSE IF s[k] = "\n"
         THEN LineScanOnNewline(s, idx, k + 1, i + Utf8Len(s[k]),
                                line_number + 1, i)
         ELSE LineScanOnNewline(s, idx, k + 1, i + Utf8Len(s[k]),
                                line_number, line_start)

\* fn get_line_info(s, index): (line_number, position_in_line); the loop over
\* char_indices, with i the byte offset of character k
RECURSIVE LineScan(_, _, _, _, _, _)
LineScan(s, idx, k, i, line_number, line_start) ==
    IF k > Len(s) \/ i >= idx
    THEN <<line_number, idx - line_start + 1>>
    ELSE IF s[k] = "\n"
         THEN LineScan(s, idx, k + 1, i + Utf8Len(s[k]), line_number + 1, i + 1)
         ELSE LineScan(s, idx, k + 1, i + Utf8Len(s[k]), line_number, line_start)
get_line_info(s, idx) == LineScan(s, idx, 1, 0, 1, 0)

\* Context::get_line_info (src/context.rs): the same loop over the span's
\* src and start
Context_get_line_info(ctx) == LineScan(ctx.src, ctx.start, 1, 0, 1, 0)

\* str::lines: the text between line feeds, a carriage return before a line
\* feed dropped, no empty line after a final line feed
StripCR(l) ==
    IF l # <<>> /\ l[Len(l)] = "\r" THEN SubSeq(l, 1, Len(l) - 1) ELSE l
RECURSIVE SplitLines(_, _)
SplitLines(s, cur) ==
    IF s = <<>> THEN (IF cur = <<>> THEN <<>> ELSE <<cur>>)
    ELSE IF Head(s) = "\n" THEN <<StripCR(cur)>> \o SplitLines(Tail(s), <<>>)
    ELSE SplitLines(Tail(s), Append(cur, Head(s)))
lines(s) == SplitLines(s, <<>>)

\* " ".repeat(n) and "^".repeat(n)
repeat(c, n) == [i \in 1..n |-> c]

\* the format! of in_context: path:line:col, the source line, the caret line;
\* ok is FALSE when lines().nth(line - 1).unwrap() panics
Excerpt(s, start, len) ==
    LET info == get_line_info(s, start)
        line == info[1]
        col == info[2]
        ls == lines(s)
    IN  IF line > Len(ls)
        THEN [ok |-> FALSE, line |-> line, col |-> col, line_src |-> <<>>,
              carets |-> <<>>]
        ELSE [ok |-> TRUE, line |-> line, col |-> col, line_src |-> ls[line],
              carets |-> repeat(" ", col - 1) \o repeat("^", len)]

\* Token::in_context (src/lexer.rs) and Context::in_context (src/context.rs)
Token_in_context(s, t) == Excerpt(s, t.start, t.len)
Context_in_context(ctx) == Excerpt(ctx.src, ctx.start, ctx.len)

(***************************************************************************)
(* The lexer object as a record, for the methods that update it.  status   *)
(* becomes "panic" when an unwrap fails.                                   *)
(***************************************************************************)
Self == [chars |-> chars, pos |-> pos, accum |-> accum, tokens |-> tokens,
         status |-> "ok"]

\* the match in push_accum; the IntLit arm unwraps the result of parse
Classify(text) ==
    IF is_keyword(text) THEN Keyword(text)
    ELSE IF is_int(text) THEN
            (IF parse(text).ok THEN IntLit(parse(text).num)
             ELSE [kind |-> "unwrap on Err"])
    ELSE IF is_bool(text) THEN BoolLit(text = TrueText)
    ELSE Ident(text)

\* fn push_accum(&mut self) and fn push(&mut self, token), which call each
\* other
RECURSIVE push(_, _)
push_accum(L) ==
    IF L.accum # <<>>
    THEN LET token == Classify(L.accum)
         IN  IF token.kind = "unwrap on Err"
             THEN [L EXCEPT !.status = "panic"]
             ELSE push([L EXCEPT !.accum = <<>>], token)
    ELSE L

\* a push that records the token without advancing pos
push_in_place(L, token) ==
    LET L1 == push_accum(L)
    IN  IF L1.status = "panic" THEN L1
        ELSE [L1 EXCEPT
                !.tokens = Append(@, [token |-> token, start |-> L1.pos,
                                      len |-> length(token)])]

push(L, token) ==
    LET L1 == push_accum(L)
        len == length(token)
    IN  IF L1.status = "panic" THEN L1
        ELSE [L1 EXCEPT
                !.tokens = Append(@, [token |-> token, start |-> L1.pos,
                                      len |-> len]),
                !.pos = @ + len]

\* the number of push frames on the stack at the deepest point of a call
\* push(token) made with the lexer in state L: push calls push_accum, which
\* calls push again only with pending text, after clearing it
RECURSIVE push_depth(_)
push_accum_depth(L) ==
    IF L.accum # <<>> /\ Classify(L.accum).kind # "unwrap on Err"
    THEN push_depth([L EXCEPT !.accum = <<>>])
    ELSE 0
push_depth(L) == 1 + push_accum_depth(L)

\* an iterator that moves by one character whatever was asked
AdvanceOne(L, n) == [L EXCEPT !.chars = @ + 1]

\* chars.next() has given the character(s); the iterator moves on
Advance(L, n) == [L EXCEPT !.chars = @ + n]

\* the arms of the match in lex
ArmWhitespace(L) == push(Advance(L, 1), None)
ArmStructural(L, c) == push(Advance(L, 1), Punct(StructuralKind(c)))
ArmFatArrow(L) == push(Advance(L, 2), FatArrow)
ArmEqSpace(L) ==
    push([Advance(L, 2) EXCEPT !.accum = Append(@, "=")], None)
ArmEqOther(L, o) ==
    [Advance(L, 2) EXCEPT !.accum = Append(Append(@, "="), o)]
ArmEqEnd(L) == push(Advance(L, 1), None)
ArmOther(L, c) == [Advance(L, 1) EXCEPT !.accum = Append(@, c)]

\* one iteration of `while let Some(c) = chars.next()`
Step(L, s) ==
    LET c == s[L.chars]
    IN  IF c \in Whitespace THEN ArmWhitespace(L)
        ELSE IF c \in Structural THEN ArmStructural(L, c)
        ELSE IF c = "=" THEN
            (IF L.chars + 1 > Len(s) THEN ArmEqEnd(L)
             ELSE IF s[L.chars + 1] = ">" THEN ArmFatArrow(L)
             ELSE IF s[L.chars + 1] = " " THEN ArmEqSpace(L)
             ELSE ArmEqOther(L, s[L.chars + 1]))
        ELSE ArmOther(L, c)

\* a collect without the filter
FilterNothing(ts) == ts

\* self.tokens.into_iter().filter(|t| t.token != TokenKind::None).collect()
FilterNone(ts) == SelectSeq(ts, LAMBDA t : t.token # None)

\* Lexer::new followed by lex, as a function of the source: the returned
\* tokens, or "panic"
NewLexer == [chars |-> 1, pos |-> 0, accum |-> <<>>, tokens |-> <<>>,
             status |-> "ok"]
RECURSIVE Run(_, _)
Run(L, s) ==
    IF L.status = "panic" \/ L.chars > Len(s) THEN L ELSE Run(Step(L, s), s)
lex(s) ==
    LET L == Run(NewLexer, s)
    IN  IF L.status = "panic" THEN "panic" ELSE FilterNone(L.tokens)

(***************************************************************************)
(* The sources the lexer is run on: every text of at most MaxSrcLen        *)
(* characters over a small alphabet, and some longer ones.                 *)
(***************************************************************************)
Alphabet == {"x", "0", " ", "\n", "=", ">", "("}

RECURSIVE SeqsUpTo(_, _)
SeqsUpTo(S, n) ==
    IF n = 0 THEN {<<>>}
    ELSE LET shorter == SeqsUpTo(S, n - 1)
         IN  shorter \cup {Append(q, c) : q \in {r \in shorter : Len(r) = n - 1},
                                          c \in S}

NamedSources ==
    { <<"f", "n", " ", " ", "x">>,
      <<"f", "n", " ", " ", "x", " ">>,
      <<"l", "e", "t", " ">>,
      <<"m", "a", "t", "c", "h", "(">>,
      <<"c", "o", "n", "d", "\n">>,
      <<"i", "t", "s", "e", "l", "f", " ">>,
      <<"1", "2", "3", " ">>,
      <<"t", "r", "u", "e", " ", "f", "a", "l", "s", "e", " ">>,
      <<"f", "o", "o", "1", " ">>,
      <<"0", "0", "7", " ", "x", " ">>,
      <<"0", "1", "(">>,
      <<"0", "1", " ", "x", " ">>,
      <<"U+00E9", " ", "x", "U+00A0", "x", "\t">>,
      <<"x", "=", " ", "x", "=", "x", " ", "x", "=">>,
      <<"(", ")", "{", "}", ":", ",", "|", "=", ">">>,
      <<"a", "\n", "b", "b", "\n", "c", "c", "c">>,
      <<"a", "\n", "b", "b", "\n", "c", "c", "c", "\n">>,
      I64Max \o <<" ">>,
      <<"0", "0">> \o I64Max \o <<" ">>,
      <<"9", "2", "2", "3", "3", "7", "2", "0", "3", "6",
        "8", "5", "4", "7", "7", "5", "8", "0", "8", " ">>,
      <<"1", "0", "0", "0", "0", "0", "0", "0", "0", "0",
        "0", "0", "0", "0", "0", "0", "0", "0", "0", "0", ")">>,
      <<"9", "2", "2", "3", "3", "7", "2", "0", "3", "6",
        "8", "5", "4", "7", "7", "5", "8", "0", "8", "=", ">">> }

Sources == SeqsUpTo(Alphabet, MaxSrcLen) \cup NamedSources

\* Lexer::new: the source is read, nothing is scanned yet
LInit ==
    /\ src \in Sources
    /\ chars = 1
    /\ pos = 0
    /\ accum = <<>>
    /\ tokens = <<>>
    /\ lpc = "scan"
    /\ out = <<>>
    /\ printed = <<>>

\* no lexer is running
LIdle ==
    /\ src = <<>>
    /\ chars = 1
    /\ pos = 0
    /\ accum = <<>>
    /\ tokens = <<>>
    /\ lpc = "idle"
    /\ out = <<>>
    /\ printed = <<>>

\* the lexer object after an arm has run
Commit(L) ==
    /\ chars' = L.chars
    /\ pos' = L.pos
    /\ accum' = L.accum
    /\ tokens' = L.tokens
    /\ lpc' = IF L.status = "panic" THEN "panic" ELSE "scan"
    /\ UNCHANGED <<src, out, printed>>
    /\ UNCHANGED ivars

HasNext == lpc = "scan" /\ chars <= Len(src)

\* c if c.is_whitespace() => self.push(TokenKind::None)
LexWhitespace ==
    /\ HasNext
    /\ src[chars] \in Whitespace
    /\ Commit(ArmWhitespace(Self))

\* '(' ')' '{' '}' ':' ',' '|' => self.push(the punctuation token)
LexStructural ==
    /\ HasNext
    /\ src[chars] \in Structural
    /\ Commit(ArmStructural(Self, src[chars]))

\* '=' then Some('>') => self.push(TokenKind::FatArrow)
LexFatArrow ==
    /\ HasNext
    /\ src[chars] = "="
    /\ chars + 1 <= Len(src)
    /\ src[chars + 1] = ">"
    /\ Commit(ArmFatArrow(Self))

\* '=' then Some(' ') => accum.push('='); self.push(TokenKind::None)
LexEqSpace ==
    /\ HasNext
    /\ src[chars] = "="
    /\ chars + 1 <= Len(src)
    /\ src[chars + 1] = " "
    /\ Commit(ArmEqSpace(Self))

\* '=' then Some(o) => accum.push('='); accum.push(o)
LexEqOther ==
    /\ HasNext
    /\ src[chars] = "="
    /\ chars + 1 <= Len(src)
    /\ src[chars + 1] \notin {">", " "}
    /\ Commit(ArmEqOther(Self, src[chars + 1]))

\* '=' then None => self.push(TokenKind::None)
LexEqEnd ==
    /\ HasNext
    /\ src[chars] = "="
    /\ chars + 1 > Len(src)
    /\ Commit(ArmEqEnd(Self))

\* c => self.accum.push(c)
LexOther ==
    /\ HasNext
    /\ src[chars] \notin Whitespace \cup Structural \cup {"="}
    /\ Commit(ArmOther(Self, src[chars]))

\* a return that first flushes the pending text
LexReturnFlush ==
    /\ lpc = "scan"
    /\ chars > Len(src)
    /\ out' = FilterNone(push_accum(Self).tokens)
    /\ accum' = <<>>
    /\ lpc' = "done"
    /\ UNCHANGED <<src, chars, pos, tokens, printed>>
    /\ UNCHANGED ivars

\* the loop ends; lex returns the tokens without the None markers
LexReturn ==
    /\ lpc = "scan"
    /\ chars > Len(src)
    /\ out' = FilterNone(tokens)
    /\ lpc' = "done"
    /\ UNCHANGED <<src, chars, pos, accum, tokens, printed>>
    /\ UNCHANGED ivars

\* the caller renders the next token of the output: token.in_context();
\* the unwrap in in_context panics when the source has no such line
PrintToken ==
    /\ lpc = "done"
    /\ Len(printed) < Len(out)
    /\ LET e == Token_in_context(src, out[Len(printed) + 1])
       IN  /\ printed' = Append(printed, e)
           /\ lpc' = IF e.ok THEN "done" ELSE "panic in_context"
    /\ UNCHANGED <<src, chars, pos, accum, tokens, out>>
    /\ UNCHANGED ivars

LNext ==
    \/ LexWhitespace
    \/ LexStructural
    \/ LexFatArrow
    \/ LexEqSpace
    \/ LexEqOther
    \/ LexEqEnd
    \/ LexOther
    \/ LexReturn
    \/ PrintToken

(***************************************************************************)
(* Specifications: threads interning concurrently, and one run of lex.     *)
(***************************************************************************)
Init == IInit /\ LIdle
Next == INext
Spec == Init /\ [][Next]_vars

\* Fair scheduling of the threads: a thread inside Symbol::new that can
\* take its next step, the acquisition of a free mutex included, takes it in
\* the end.  Nothing obliges a thread to call Symbol::new.
ThreadStep(t) ==
    \/ LockSymbols(t) \/ LockMap(t) \/ Lookup(t) \/ Push(t) \/ Insert(t)
    \/ UnlockMap(t) \/ UnlockSymbols(t)
Fairness == \A t \in Threads : WF_vars(ThreadStep(t))
FairSpec == Init /\ [][Next]_vars /\ Fairness

LexInit == IInit /\ LInit
LexSpec == LexInit /\ [][LNext]_vars

\* lex is a sequential loop: while it has not returned or panicked, its
\* next iteration is taken
LexFairSpec == LexInit /\ [][LNext]_vars /\ WF_vars(LNext)

(***************************************************************************)
(* Properties of the interner.                                             *)
(***************************************************************************)

\* the Symbols that exist: the map's entries and those handed to callers
MapSymbols == {symbols_map[n] : n \in DOMAIN symbols_map}
KnownSymbols == MapSymbols \cup {r.symbol : r \in returned}

\* C1: any two calls of Symbol::new made with equal text, from any threads in
\* any interleaving, return the same Symbol (same index, same stored text),
\* also when both calls were made while the text was not yet in the table.
SameTextSameSymbol ==
    /\ \A r1, r2 \in returned : r1.text = r2.text => r1.symbol = r2.symbol
    /\ \A t \in Threads : \A r \in returned :
          (pc[t] \in {"unlock_map", "unlock_symbols"} /\ arg[t] = r.text)
             => Symbol(ret[t].name, ret[t].index) = r.symbol

\* two calls raced on an absent text: one has returned, the other was made
\* before the entry existed, found it at its lookup and is returning the
\* same Symbol
RacedCallsAgree ==
    \E t \in Threads : \E r \in returned :
        /\ pc[t] = "unlock_symbols"
        /\ path[t] = "raced"
        /\ r.text = arg[t]
        /\ r.symbol = Symbol(ret[t].name, ret[t].index)

\* C2: two Symbols are equal if and only if their texts are equal, and calls
\* with different texts return Symbols with different indices.
EqualIffSameText ==
    /\ \A s1, s2 \in KnownSymbols : (s1 = s2) <=> (s1.name = s2.name)
    /\ \A r \in returned : r.symbol.name = r.text
    /\ \A r1, r2 \in returned :
          r1.text # r2.text => r1.symbol.index # r2.symbol.index

DistinctTextsReturned ==
    \E r1, r2 \in returned :
        r1.text # r2.text /\ r1.symbol.index # r2.symbol.index

\* C3: a text absent from the table gets the next sequential index, the
\* number of distinct texts interned before it, so the indices of n distinct
\* texts are exactly 0..n-1 in order of insertion.
SequentialIndices ==
    /\ \A n \in DOMAIN symbols_map :
          /\ symbols_map[n].index < Len(symbols)
          /\ symbols[symbols_map[n].index + 1] = n
          /\ symbols_map[n].index =
                Cardinality({m \in DOMAIN symbols_map :
                               symbols_map[m].index < symbols_map[n].index})
    /\ {s.index : s \in MapSymbols} = 0..(Cardinality(DOMAIN symbols_map) - 1)
    /\ \A t \in Threads :
          pc[t] = "insert" => index[t] = Cardinality(DOMAIN symbols_map)

ThreeTextsIndexed ==
    /\ Cardinality(DOMAIN symbols_map) >= 3
    /\ \E r1, r2 \in returned : r1.symbol.index = 1 /\ r2.symbol.index = 2

\* C4 (as claimed): the table is append-only and a Symbol returned earlier
\* still gives the same text and index after any later calls.
TableAppendOnly ==
    [][/\ \A n \in DOMAIN symbols_map :
            n \in DOMAIN symbols_map' /\ symbols_map'[n] = symbols_map[n]
       /\ Len(symbols') >= Len(symbols)
       /\ SubSeq(symbols', 1, Len(symbols)) = symbols
       /\ \A t \in Threads :
            (pc[t] = "lookup" /\ pc'[t] = "unlock_map")
               => (symbols' = symbols /\ symbols_map' = symbols_map)]_vars

ReturnedSymbolStaysReadable ==
    held # NoRef => Deref(held) = {Symbol(held.name, held.index)}

(***************************************************************************)
(* Properties of the lexer.                                                *)
(***************************************************************************)

\* the byte offset just after the first k characters of s
ByteOffset(s, k) == ByteLen(SubSeq(s, 1, k))

\* the column get_line_info gives a token
Column(t) == get_line_info(src, t.start)[2]

\* C5 (as claimed): the identifiers lex returns are interned, every
\* identifier text of the output is in the interning table.
IdentifiersInterned ==
    lpc = "done" =>
        \A i \in DOMAIN out :
            out[i].token.kind = "Ident" =>
                out[i].token.text \in DOMAIN symbols_map

\* C6 (as claimed): lexing "fn  x" gives exactly two tokens, the keyword fn
\* at column 1 and the identifier x at column 5.
FnSpaceSpaceX == <<"f", "n", " ", " ", "x">>
FnTwoSpacesXGivesTwoTokens ==
    (lpc = "done" /\ src = FnSpaceSpaceX) =>
        /\ Len(out) = 2
        /\ out[1].token = Keyword(<<"f", "n">>)
        /\ Column(out[1]) = 1
        /\ out[2].token = Ident(<<"x">>)
        /\ Column(out[2]) = 5

\* the source spells token t at byte offset off
SpelledFrom(s, k, t) ==
    CASE t.kind \in {"Ident", "Keyword"} ->
            SubSeq(s, k, k + Len(t.text) - 1) = t.text
      [] t.kind = "BoolLit" ->
            LET text == IF t.b THEN TrueText ELSE FalseText
            IN  SubSeq(s, k, k + Len(text) - 1) = text
      [] t.kind = "IntLit" ->
            \E n \in 1..(Len(s) - k + 1) :
                /\ is_int(SubSeq(s, k, k + n - 1))
                /\ StripZeros(SubSeq(s, k, k + n - 1)) = t.num
      [] t.kind = "FatArrow" -> SubSeq(s, k, k + 1) = <<"=", ">">>
      [] OTHER -> StructuralKind(s[k]) = t.kind
SpelledAt(s, off, t) ==
    \E k \in 1..Len(s) : ByteOffset(s, k - 1) = off /\ SpelledFrom(s, k, t)

\* C7 (as claimed): every emitted token advances the running position by
\* the source bytes it consumed, so each token of the output starts at the
\* byte offset where its text begins in the source.
StartIsSourceOffset ==
    /\ lpc \in {"scan", "done"} =>
          pos + ByteLen(accum) = ByteOffset(src, chars - 1)
    /\ lpc = "done" =>
          \A i \in DOMAIN out : SpelledAt(src, out[i].start, out[i].token)

\* C8: text pending in the accumulator when the source ends is never
\* emitted: "x" gives no token, "x " gives one identifier, and the output is
\* that of the source without its trailing accumulated run.
TrailingTextDropped ==
    /\ (lpc = "done" /\ src = <<"x">>) => out = <<>>
    /\ (lpc = "done" /\ src = <<"x", " ">>) =>
          out = <<[token |-> Ident(<<"x">>), start |-> 0, len |-> 1]>>
    /\ (lpc = "done" /\ accum # <<>>) =>
          /\ Len(accum) <= Len(src)
          /\ SubSeq(src, Len(src) - Len(accum) + 1, Len(src)) = accum
          /\ out = lex(SubSeq(src, 1, Len(src) - Len(accum)))

TrailingTextAfterTokens ==
    /\ lpc = "done"
    /\ accum # <<>>
    /\ out # <<>>
    /\ \A i \in DOMAIN out : out[i].start + out[i].len <= Len(src) - Len(accum)

\* C9 (as claimed): no input makes tokenization fail, lex never crashes.
LexNeverFails == lpc # "panic"

\* the text a flush classifies, when this iteration flushes
FlushedText ==
    IF src[chars] = "=" /\ chars + 1 <= Len(src) /\ src[chars + 1] = " "
    THEN Append(accum, "=")
    ELSE accum
Flushes ==
    /\ HasNext
    /\ \/ src[chars] \in Whitespace \cup Structural
       \/ /\ src[chars] = "="
          /\ chars + 1 <= Len(src) => src[chars + 1] \in {">", " "}
    /\ FlushedText # <<>>

\* the classification by precedence: keyword, integer, boolean, identifier
ByPrecedence(text) ==
    IF text \in Keywords THEN Keyword(text)
    ELSE IF \A i \in 1..Len(text) : text[i] \in Digits
         THEN IntLit(StripZeros(text))
    ELSE IF text = TrueText THEN BoolLit(TRUE)
    ELSE IF text = FalseText THEN BoolLit(FALSE)
    ELSE Ident(text)

\* C10 (as claimed): a flush of a non-empty accumulator emits exactly one
\* token, classified by precedence keyword > integer literal of that decimal
\* value > boolean > identifier, and leaves the accumulator empty.
FlushClassifiesByPrecedence ==
    [][Flushes =>
         /\ lpc' = "scan"
         /\ Len(tokens') = Len(tokens) + 2
         /\ tokens'[Len(tokens) + 1].token = ByPrecedence(FlushedText)
         /\ tokens'[Len(tokens) + 1].start = pos
         /\ accum' = <<>>]_vars

(***************************************************************************)
(* Properties of the location resolver.                                    *)
(***************************************************************************)

\* the characters of s that are line feeds lying strictly before byte off
NewlinesBefore(s, off) ==
    {k \in 1..Len(s) : s[k] = "\n" /\ ByteOffset(s, k - 1) < off}

\* the byte offset just after the last line feed before off, 0 if none
LineStartBefore(s, off) ==
    LET after == {ByteOffset(s, k) : k \in NewlinesBefore(s, off)}
    IN  IF after = {} THEN 0
        ELSE CHOOSE m \in after : \A n \in after : n <= m

ThreeLines == <<"a", "\n", "b", "b", "\n", "c", "c", "c">>

\* C11: for any source and byte offset in it, get_line_info gives line =
\* 1 + the line feeds strictly before the offset and column = offset - (the
\* offset after the last such line feed, or 0) + 1, both at least 1; in
\* "a\nbb\nccc" offset 2 is line 2 column 1 and offset 5 line 3 column 1.
LineInfoCountsNewlines ==
    /\ lpc # "idle" =>
         \A off \in 0..ByteLen(src) :
            LET info == get_line_info(src, off)
            IN  /\ info[1] = 1 + Cardinality(NewlinesBefore(src, off))
                /\ info[2] = off - LineStartBefore(src, off) + 1
                /\ info[1] >= 1
                /\ info[2] >= 1
                /\ Context_get_line_info(
                      [start |-> off, len |-> 1, src |-> src]) = info
    /\ get_line_info(ThreeLines, 2) = <<2, 1>>
    /\ get_line_info(ThreeLines, 5) = <<3, 1>>

\* the token bb of "a\nbb\nccc" has been rendered at line 2, column 1
SecondLineTokenRendered ==
    /\ src = ThreeLines
    /\ Len(printed) = 2
    /\ printed[2].line = 2
    /\ printed[2].col = 1
    /\ out[2].start = 2

\* the m characters of s from character k on are the source text of token t
TokenTextAt(s, k, m, t) ==
    LET text == SubSeq(s, k, k + m - 1)
    IN  CASE t.kind \in {"Ident", "Keyword"} -> text = t.text
          [] t.kind = "BoolLit" -> text = (IF t.b THEN TrueText ELSE FalseText)
          [] t.kind = "IntLit" ->
                /\ is_int(text)
                /\ StripZeros(text) = t.num
                /\ k + m <= Len(s) => s[k + m] \notin Digits
          [] t.kind = "FatArrow" -> text = <<"=", ">">>
          [] OTHER -> m = 1 /\ StructuralKind(s[k]) = t.kind

\* C12 (as claimed): for every token lex produced, the caret line of its
\* excerpt is (column - 1) spaces followed by as many carets as the byte
\* length of the token's text in the source, so the carets sit under it.
CaretsUnderTokenText ==
    \A i \in DOMAIN printed :
        /\ printed[i].ok
        /\ \E k \in 1..Len(src) : \E m \in 1..(Len(src) - k + 1) :
              /\ ByteOffset(src, k - 1) = out[i].start
              /\ TokenTextAt(src, k, m, out[i].token)
              /\ printed[i].carets =
                    repeat(" ", printed[i].col - 1)
                       \o repeat("^", ByteLen(SubSeq(src, k, k + m - 1)))

(***************************************************************************)
(* Properties of the output of lex.                                        *)
(***************************************************************************)

\* C13: the sequence lex returns contains no None marker, whatever spaces,
\* tabs, line feeds or '=' at the end of input made such markers.
NoMarkerInOutput ==
    \A i \in DOMAIN out : out[i].token # None

\* markers were made during the scan, one of them by a final '=', and the
\* output holds the other tokens only
MarkersWereFiltered ==
    /\ lpc = "done"
    /\ src # <<>>
    /\ src[Len(src)] = "="
    /\ tokens # <<>>
    /\ tokens[Len(tokens)].token = None
    /\ \E i \in 1..(Len(tokens) - 1) : tokens[i].token = None
    /\ out # <<>>
    /\ Len(out) < Len(tokens)

\* the kinds of the punctuation tokens of ts other than fat arrows, in order
PunctKinds(ts) ==
    LET structural == {StructuralKind(c) : c \in Structural}
        ps == SelectSeq(ts, LAMBDA t : t.token.kind \in structural)
    IN  [i \in 1..Len(ps) |-> ps[i].token.kind]

\* the kinds of the structural characters of s, in order
StructuralKindsOf(s) ==
    LET cs == SelectSeq(s, LAMBDA c : c \in Structural)
    IN  [i \in 1..Len(cs) |-> StructuralKind(cs[i])]

\* C14 (as claimed): every structural character of the source flushes the
\* accumulator and yields exactly one punctuation token of its kind, so the
\* output has, per structural character, as many punctuation tokens of that
\* kind as the source has occurrences, in source order.
StructuralCharsBecomeTokens ==
    /\ [][(HasNext /\ src[chars] \in Structural) =>
            /\ lpc' = "scan"
            /\ accum' = <<>>
            /\ Len(tokens') = Len(tokens) + (IF accum = <<>> THEN 1 ELSE 2)
            /\ tokens'[Len(tokens')].token = Punct(StructuralKind(src[chars]))
         ]_vars
    /\ [](lpc = "done" => PunctKinds(out) = StructuralKindsOf(src))

\* the tokens after a flush of text at position p followed by token t of
\* length n, as the claims describe a flush
FlushedThen(ts, text, p, t, n) ==
    LET flushed ==
          IF text = <<>> THEN ts
          ELSE Append(ts, [token |-> ByPrecedence(text), start |-> p,
                           len |-> ByteLen(text)])
    IN  Append(flushed, [token |-> t,
                         start |-> IF text = <<>> THEN p ELSE p + ByteLen(text),
                         len |-> n])

\* C15 (as claimed): on '=' the scan also consumes the next character: '>'
\* flushes the accumulator and emits one fat arrow of length 2; a space
\* appends '=' to the accumulator, flushes it and emits a marker ("x= " is the
\* single identifier "x="); any other character appends '=' and itself to
\* the accumulator and emits nothing; end of input flushes and emits a marker.
EqualsSignCases ==
    /\ [][(HasNext /\ src[chars] = "=") =>
            IF chars + 1 > Len(src)
            THEN /\ lpc' = "scan"
                 /\ chars' = chars + 1
                 /\ accum' = <<>>
                 /\ Len(tokens') = Len(tokens) + (IF accum = <<>> THEN 1 ELSE 2)
                 /\ tokens'[Len(tokens')].token = None
            ELSE IF src[chars + 1] = ">"
            THEN /\ lpc' = "scan"
                 /\ chars' = chars + 2
                 /\ accum' = <<>>
                 /\ Len(tokens') = Len(tokens) + (IF accum = <<>> THEN 1 ELSE 2)
                 /\ tokens'[Len(tokens')].token = FatArrow
                 /\ tokens'[Len(tokens')].len = 2
            ELSE IF src[chars + 1] = " "
            THEN /\ lpc' = "scan"
                 /\ chars' = chars + 2
                 /\ accum' = <<>>
                 /\ tokens' = FlushedThen(tokens, Append(accum, "="), pos,
                                          None, 1)
            ELSE /\ lpc' = "scan"
                 /\ chars' = chars + 2
                 /\ accum' = Append(Append(accum, "="), src[chars + 1])
                 /\ tokens' = tokens
         ]_vars
    /\ []((lpc = "done" /\ src = <<"x", "=", " ">>) =>
            out = <<[token |-> Ident(<<"x", "=">>), start |-> 0, len |-> 2]>>)

\* C16: the output of lex is in source order with disjoint spans: every
\* token has length at least 1 and each token ends at or before the start of
\* the next, so the start offsets increase strictly.
SpansDisjointInOrder ==
    /\ \A i \in DOMAIN out : out[i].len >= 1
    /\ \A i \in DOMAIN out : \A j \in DOMAIN out :
          i < j => /\ out[i].start + out[i].len <= out[j].start
                   /\ out[i].start < out[j].start

\* three tokens were returned, the second right after the first, the third
\* after a gap
ThreeTokensInOrder ==
    /\ lpc = "done"
    /\ Len(out) >= 3
    /\ out[1].start + out[1].len = out[2].start
    /\ out[2].start + out[2].len < out[3].start

\* the position of the character iterator after chars.next() was called n
\* times from position k of a source of length m
AfterNext(k, n, m) == IF k + n > m + 1 THEN m + 1 ELSE k + n

\* C17: lex terminates on every finite source after one left-to-right pass:
\* each iteration takes one character from the iterator, two on '=' (the
\* second is the end of input when '=' is last), the iterator never moves
\* back, a push nests at most one further push because the accumulator is
\* cleared before it, and every run ends by returning or by panicking.
LexTerminatesInOnePass ==
    /\ [][(lpc = "scan" /\ lpc' # "done") =>
            /\ chars' = AfterNext(chars, IF src[chars] = "=" THEN 2 ELSE 1,
                                  Len(src))
            /\ chars' > chars]_vars
    /\ [][chars' >= chars]_vars
    /\ [](lpc = "scan" =>
            /\ chars <= Len(src) + 1
            /\ push_depth(Self) <= 2
            /\ push_depth([Self EXCEPT !.accum = Append(@, "=")]) <= 2)
    /\ <>(lpc \in {"done", "panic"})

\* lex returned after an iteration on '=' took two characters and a push
\* flushed pending text through a nested push
ReturnedAfterPairAndFlush ==
    /\ lpc = "done"
    /\ \E k \in 1..(Len(src) - 1) : src[k] = "=" /\ src[k + 1] = ">"
    /\ \E i \in DOMAIN tokens :
          /\ tokens[i].token.kind = "Ident"
          /\ i < Len(tokens)
          /\ tokens[i + 1].token = FatArrow

\* where a call is, relative to the two mutexes
HoldsSymbols == {"lock_map", "lookup", "push", "insert", "unlock_map",
                 "unlock_symbols"}
HoldsMap == {"lookup", "push", "insert", "unlock_map"}
InSection == {"lookup", "push", "insert"}

\* C18: concurrent interning cannot deadlock: a call takes the list lock and
\* then the map lock, holds the map lock only while it holds the list lock,
\* and holds neither once it has returned; at most one call is in the
\* lookup-or-insert section at a time; and under fair scheduling every call
\* returns.
InternNeverDeadlocks ==
    /\ [](\A t \in Threads :
            /\ (symbols_lock = t) <=> (pc[t] \in HoldsSymbols)
            /\ (map_lock = t) <=> (pc[t] \in HoldsMap))
    /\ [](\A t \in Threads : \A u \in Threads :
            (pc[t] \in InSection /\ pc[u] \in InSection) => t = u)
    /\ \A t \in Threads : (pc[t] # "idle") ~> (pc[t] = "idle")

\* one call is in the section while another waits for the list lock
OneInsideOneWaiting ==
    \E t \in Threads : \E u \in Threads :
        /\ t # u
        /\ pc[t] = "insert"
        /\ pc[u] = "lock_symbols"

NoCallInProgress == \A t \in Threads : pc[t] = "idle"

\* C19: whenever no call is in progress the two stores agree: the list and
\* the map have the same number of entries, the list has no text twice, and
\* every map entry text -> Symbol has Symbol.name = text and the text at
\* position Symbol.index of the list.
StoresAgree ==
    NoCallInProgress =>
        /\ Len(symbols) = Cardinality(DOMAIN symbols_map)
        /\ \A i \in 1..Len(symbols) : \A j \in 1..Len(symbols) :
              symbols[i] = symbols[j] => i = j
        /\ \A text \in DOMAIN symbols_map :
              /\ symbols_map[text].name = text
              /\ symbols_map[text].index < Len(symbols)
              /\ symbols[symbols_map[text].index + 1] = text

\* all calls have returned, some of them for a text interned before, and
\* the stores hold at least two texts
StoresFilledAndIdle ==
    /\ NoCallInProgress
    /\ Len(symbols) >= 2
    /\ calls > Len(symbols)

\* the number of source bytes the character iterator has given out
ConsumedBytes == ByteOffset(src, chars - 1)

\* C20: during the scan the running position is at most the number of source
\* bytes consumed so far; hence every token lex returns has
\* start + len <= byte length of the source, its start lies inside the
\* source, and rendering its excerpt finds the line.
PositionWithinConsumed ==
    /\ lpc \in {"scan", "done", "panic in_context"} =>
          /\ pos <= ConsumedBytes
          /\ \A i \in DOMAIN tokens :
                tokens[i].start + tokens[i].len <= ConsumedBytes
    /\ \A i \in DOMAIN out :
          /\ out[i].start + out[i].len <= ByteLen(src)
          /\ out[i].start < ByteLen(src)
    /\ \A i \in DOMAIN printed : printed[i].ok
    /\ lpc # "panic in_context"

\* every token of the output was rendered, the last one ends right before
\* the newline that ends the source
LastTokenBeforeFinalNewline ==
    /\ lpc = "done"
    /\ Len(out) >= 2
    /\ Len(printed) = Len(out)
    /\ src[Len(src)] = "\n"
    /\ out[Len(out)].start + out[Len(out)].len = ByteLen(src) - 1
====
